---- MODULE Spec2Model ----
(***************************************************************************)
(* Secure binary resolution and execution layer of the Apple events MCP    *)
(* server: the CLI executor (utils/cliExecutor.ts), the binary validator   *)
(* it selects its binary with (utils/binaryValidator.ts) and the           *)
(* permission prompt trigger (the two definitions of                       *)
(* triggerPermissionPrompt kept in utils/applescriptList.ts).              *)
(*                                                                         *)
(* JavaScript values are records tagged with their type in field t, so     *)
(* that null, undefined, strings and buffers stay distinct values.         *)
(***************************************************************************)
EXTENDS Integers, Sequences, FiniteSets, TLC

VARIABLES
    pc,               \* position of the executeCli call: "idle", "running", "done"
                      \* ("none" when the process makes no executeCli call)
    args,             \* argument vector the caller passed to executeCli
    projectRoot,      \* what findProjectRoot() returned for this call
    env,              \* process.env: NODE_ENV and SWIFT_BINARY_HASH
    fs,               \* state of the file at each candidate path
    script,           \* what the first child of this call will report, and the next
    child,            \* the child process being awaited (path and argv)
    events,           \* validations, spawns, exits and prompts of this call, in order
    outcome,          \* how the executeCli promise settled
    request,          \* the repository method the caller invoked, with its data
                      \* (op "none": the caller calls executeCli directly)
    loaded,           \* which definition of triggerPermissionPrompt the process runs
    promptedDomains,  \* the module-level Set of domains already prompted
    calls,            \* the triggerPermissionPrompt calls made so far
    vop,              \* the validator function a direct caller applied ("idle": none yet;
                      \* "none" when the process makes no direct validator call)
    vpaths,           \* the candidate paths handed to the validator
    vconfig,          \* the configuration handed to the validator
    vfiles,           \* the filesystem the validator looks at
    vout              \* what the applied validator function returned or threw

execVars == <<pc, args, projectRoot, env, fs, script, child, events, outcome, request>>
promptVars == <<loaded, promptedDomains, calls>>
validatorVars == <<vop, vpaths, vconfig, vfiles, vout>>
vars == <<pc, args, projectRoot, env, fs, script, child, events, outcome, request,
          loaded, promptedDomains, calls, vop, vpaths, vconfig, vfiles, vout>>

(***************************************************************************)
(* Bounds                                                                  *)
(***************************************************************************)
\* cap on the child processes one executeCli call may start in the model
MaxSpawns == 3
\* number of triggerPermissionPrompt calls made in one run of the process
MaxCalls == 3

(***************************************************************************)
(* JavaScript values                                                       *)
(***************************************************************************)
JsNull == [t |-> "null", v |-> ""]
JsUndefined == [t |-> "undefined", v |-> ""]
JsStr(s) == [t |-> "string", v |-> s]
JsBuf(s) == [t |-> "buffer", v |-> s]
\* a parsed JSON value other than a string, named by its JSON text
JsJson(s) == [t |-> "json", v |-> s]

\* JavaScript truthiness of a value that is a string or null
Truthy(x) == x.t = "string" /\ x.v # ""

(***************************************************************************)
(* What the child process can print                                        *)
(***************************************************************************)
SuccessText1 == "{\"status\":\"success\",\"result\":{\"ok\":true}}"
SuccessText2 ==
    "{\"status\":\"success\",\"result\":{\"id\":\"123\",\"title\":\"Test reminder\"}}"
PermissionText == "{\"status\":\"error\",\"message\":\"Reminder permission denied.\"}"
ReadErrorText == "{\"status\":\"error\",\"message\":\"Failed to read reminder\"}"
CalendarText == "{\"status\":\"error\",\"message\":\"Calendar permission denied.\"}"
AuthorizationText == "{\"status\":\"error\",\"message\":\"Authorization denied.\"}"
InvalidText == "invalid json"
\* JSON texts of other shapes than the two envelopes
NullText == "null"
NumberText == "42"
NoStatusText == "{\"result\":{\"ok\":true}}"
UnknownStatusText == "{\"status\":\"pending\",\"result\":{\"ok\":true}}"
NoResultText == "{\"status\":\"success\"}"
NoMessageText == "{\"status\":\"error\"}"

EnvelopeTexts ==
    {SuccessText1, SuccessText2, PermissionText, ReadErrorText, CalendarText,
     AuthorizationText}
OtherJsonTexts ==
    {NullText, NumberText, NoStatusText, UnknownStatusText, NoResultText, NoMessageText}

StdoutTexts == EnvelopeTexts \cup OtherJsonTexts \cup {InvalidText, ""}

StdoutValues ==
    {JsStr(s) : s \in StdoutTexts} \cup {JsBuf(SuccessText1), JsBuf(PermissionText), JsNull}

\* the error argument execFile hands to its callback: none (exit status 0), or an
\* Error for a nonzero exit or for a spawn failure
NoError == [t |-> "none", message |-> ""]
ExecErrors == {[t |-> "Error", message |-> "Command failed"],
               [t |-> "Error", message |-> "Failed"]}

ChildBehaviours == [error : {NoError} \cup ExecErrors, stdout : StdoutValues]

(***************************************************************************)
(* cliExecutor.ts                                                          *)
(***************************************************************************)
bufferToString(data) ==
    IF data.t = "string" THEN data
    ELSE IF data.t = "buffer" THEN JsStr(data.v)
    ELSE JsNull

\* JSON.parse on the texts the model's child prints: a syntax error, or the
\* parsed value (isNull: it is null, and reading a property of it throws) with
\* what its properties status, result and message read as
JSONparse(text) ==
    CASE text = SuccessText1 ->
            [ok |-> TRUE, isNull |-> FALSE, status |-> JsStr("success"),
             result |-> JsJson("{\"ok\":true}"), message |-> JsUndefined]
      [] text = SuccessText2 ->
            [ok |-> TRUE, isNull |-> FALSE, status |-> JsStr("success"),
             result |-> JsJson("{\"id\":\"123\",\"title\":\"Test reminder\"}"),
             message |-> JsUndefined]
      [] text = PermissionText ->
            [ok |-> TRUE, isNull |-> FALSE, status |-> JsStr("error"),
             result |-> JsUndefined, message |-> JsStr("Reminder permission denied.")]
      [] text = ReadErrorText ->
            [ok |-> TRUE, isNull |-> FALSE, status |-> JsStr("error"),
             result |-> JsUndefined, message |-> JsStr("Failed to read reminder")]
      [] text = CalendarText ->
            [ok |-> TRUE, isNull |-> FALSE, status |-> JsStr("error"),
             result |-> JsUndefined, message |-> JsStr("Calendar permission denied.")]
      [] text = AuthorizationText ->
            [ok |-> TRUE, isNull |-> FALSE, status |-> JsStr("error"),
             result |-> JsUndefined, message |-> JsStr("Authorization denied.")]
      [] text = NullText ->
            [ok |-> TRUE, isNull |-> TRUE, status |-> JsUndefined,
             result |-> JsUndefined, message |-> JsUndefined]
      [] text = NumberText ->
            [ok |-> TRUE, isNull |-> FALSE, status |-> JsUndefined,
             result |-> JsUndefined, message |-> JsUndefined]
      [] text = NoStatusText ->
            [ok |-> TRUE, isNull |-> FALSE, status |-> JsUndefined,
             result |-> JsJson("{\"ok\":true}"), message |-> JsUndefined]
      [] text = UnknownStatusText ->
            [ok |-> TRUE, isNull |-> FALSE, status |-> JsStr("pending"),
             result |-> JsJson("{\"ok\":true}"), message |-> JsUndefined]
      [] text = NoResultText ->
            [ok |-> TRUE, isNull |-> FALSE, status |-> JsStr("success"),
             result |-> JsUndefined, message |-> JsUndefined]
      [] text = NoMessageText ->
            [ok |-> TRUE, isNull |-> FALSE, status |-> JsStr("error"),
             result |-> JsUndefined, message |-> JsUndefined]
      [] OTHER ->
            [ok |-> FALSE, isNull |-> FALSE, status |-> JsUndefined,
             result |-> JsUndefined, message |-> JsUndefined]

\* a completion of a function: a value returned, or an Error thrown that carries
\* a message and (for execFile's errors) the stdout property; parsed tells
\* whether JSON.parse was called on the way to it
Return(v) ==
    [kind |-> "return", value |-> v, message |-> "", stdout |-> JsUndefined,
     parsed |-> FALSE]
Throw(m, out) ==
    [kind |-> "throw", value |-> JsUndefined, message |-> m, stdout |-> out,
     parsed |-> FALSE]
AfterParse(r) == [r EXCEPT !.parsed = TRUE]

\* new Error(x).message: the empty string for undefined, else the text of x
ErrorMessage(x) == IF x.t = "undefined" THEN "" ELSE x.v

\* the TypeError of reading parsed.status when parsed is null
NullStatusMessage == "Cannot read properties of null (reading 'status')"

parseCliOutput(output) ==
    LET parsed == JSONparse(output) IN
    AfterParse(
        IF ~parsed.ok
        THEN Throw("EventKitCLI execution failed: Invalid CLI output", JsUndefined)
        ELSE IF parsed.isNull THEN Throw(NullStatusMessage, JsUndefined)
        ELSE IF parsed.status = JsStr("success")
             THEN Return(parsed.result)
             ELSE Throw(ErrorMessage(parsed.message), JsUndefined))

execFilePromise(b) ==
    IF b.error.t # "none"
    THEN Throw(b.error.message, b.stdout)
    ELSE Return(b.stdout)

\* the catch block of runCli, entered with whatever the try block threw
runCliCatch(error) ==
    LET normalized == bufferToString(error.stdout) IN
    IF Truthy(normalized)
    THEN parseCliOutput(normalized.v)
    ELSE [Throw("EventKitCLI execution failed: " \o error.message, JsUndefined)
              EXCEPT !.parsed = error.parsed]

\* a try block that hands whatever the child printed to the parser
runCliTryNoEmptyCheck(b) ==
    LET r == execFilePromise(b) IN
    IF r.kind = "throw" THEN r
    ELSE parseCliOutput(bufferToString(r.value).v)

\* the try block of runCli
runCliTry(b) ==
    LET r == execFilePromise(b) IN
    IF r.kind = "throw" THEN r
    ELSE LET normalized == bufferToString(r.value) IN
         IF ~Truthy(normalized)
         THEN Throw("EventKitCLI execution failed: Empty CLI output", JsUndefined)
         ELSE parseCliOutput(normalized.v)

runCli(b) ==
    LET r == runCliTry(b) IN
    IF r.kind = "throw" THEN runCliCatch(r) ELSE r

(***************************************************************************)
(* binaryValidator.ts (not among the sources: modelled from its contract   *)
(* and from the cases of binaryValidator.test.ts)                          *)
(***************************************************************************)
MB == 1024 * 1024

\* what readFileSync finds in a file: its bytes, or a read error
Contents == {"binary content", "tampered content"}
Unreadable == "EACCES"

\* what the filesystem holds at a path.  exists: "yes", "no", or "throws" when
\* existsSync itself raises; the other fields are what statSync, accessSync
\* (X_OK) and readFileSync report for an existing entry
MissingFile ==
    [exists |-> "no", isFile |-> FALSE, size |-> 0, executable |-> FALSE,
     content |-> Unreadable]
BrokenFile == [MissingFile EXCEPT !.exists = "throws"]
OkFile ==
    [exists |-> "yes", isFile |-> TRUE, size |-> 1024, executable |-> TRUE,
     content |-> "binary content"]

FileSizes == {1024, 75 * MB, 100 * MB}

\* every entry the model's filesystem can hold: a directory cannot be read as a file
Files ==
    {MissingFile, BrokenFile}
    \cup [exists : {"yes"}, isFile : {TRUE}, size : FileSizes, executable : BOOLEAN,
          content : Contents \cup {Unreadable}]
    \cup [exists : {"yes"}, isFile : {FALSE}, size : FileSizes, executable : BOOLEAN,
          content : {Unreadable}]

\* the entries the executeCli calls of the model meet at their candidate path
FileStates ==
    {OkFile, MissingFile,
     [OkFile EXCEPT !.isFile = FALSE, !.content = Unreadable],
     [OkFile EXCEPT !.size = 75 * MB],
     [OkFile EXCEPT !.executable = FALSE],
     [OkFile EXCEPT !.content = "tampered content"],
     [OkFile EXCEPT !.content = Unreadable]}

\* ---- node:path (posix) ----
isAbsolute(p) == Len(p) > 0 /\ SubSeq(p, 1, 1) = "/"

\* the pieces of p between its '/' characters, from position i on; from is where
\* the piece being read starts
RECURSIVE splitPath(_, _, _)
splitPath(p, from, i) ==
    IF i > Len(p) THEN <<SubSeq(p, from, Len(p))>>
    ELSE CHOOSE pieces \in
            {IF SubSeq(str, i, i) = "/"
             THEN <<SubSeq(str, start, i - 1)>> \o splitPath(str, next, next)
             ELSE splitPath(str, start, next)
               : str \in {p}, start \in {from}, next \in {i + 1}} : TRUE

\* segs with '.' and empty segments dropped and each '..' resolved against the
\* segment before it; above the root '..' is dropped, above a relative start kept
RECURSIVE resolveSegments(_, _, _)
resolveSegments(segs, abs, acc) ==
    IF segs = <<>> THEN acc
    ELSE LET s == Head(segs)
             rest == Tail(segs)
         IN IF s = "" \/ s = "." THEN resolveSegments(rest, abs, acc)
            ELSE IF s = ".."
                 THEN IF Len(acc) > 0 /\ acc[Len(acc)] # ".."
                      THEN resolveSegments(rest, abs, SubSeq(acc, 1, Len(acc) - 1))
                      ELSE IF abs THEN resolveSegments(rest, abs, acc)
                           ELSE resolveSegments(rest, abs, Append(acc, ".."))
                 ELSE resolveSegments(rest, abs, Append(acc, s))

RECURSIVE joinSegments(_)
joinSegments(segs) ==
    IF segs = <<>> THEN ""
    ELSE IF Len(segs) = 1 THEN segs[1]
    ELSE segs[1] \o "/" \o joinSegments(Tail(segs))

\* path.normalize(p)
normalize(p) ==
    IF Len(p) = 0 THEN "."
    ELSE LET abs == isAbsolute(p)
             trailing == SubSeq(p, Len(p), Len(p)) = "/"
             body == CHOOSE joined \in
                        {joinSegments(segs) :
                            segs \in {resolveSegments(pieces, abs, <<>>) :
                                         pieces \in {splitPath(p, 1, 1)}}} : TRUE
         IN IF Len(body) = 0
            THEN (IF abs THEN "/" ELSE IF trailing THEN "./" ELSE ".")
            ELSE (IF abs THEN "/" ELSE "") \o body \o (IF trailing THEN "/" ELSE "")

\* s.includes(sub)
includes(s, sub) ==
    \E i \in 1..(Len(s) - Len(sub) + 1) : SubSeq(s, i, i + Len(sub) - 1) = sub

\* the entry the operating system finds when asked for path
fileAt(files, path) == files[normalize(path)]

\* ---- configuration ----
DefaultAllowedPaths == <<"/dist/swift/bin/", "/src/swift/bin/", "/swift/bin/">>

\* the configuration a validator function works with when its caller passes none
DefaultConfig ==
    [requireAbsolutePath |-> TRUE, allowedPaths |-> DefaultAllowedPaths,
     maxFileSize |-> 50 * MB, expectedHash |-> JsUndefined]

NodeEnvs == {"test", "development", "production"}

\* getEnvironmentBinaryConfig(), merged over the defaults; environment is
\* process.env (NODE_ENV and SWIFT_BINARY_HASH)
getEnvironmentBinaryConfig(environment) ==
    CASE environment.NODE_ENV = "test" ->
            [DefaultConfig EXCEPT !.requireAbsolutePath = FALSE, !.maxFileSize = 100 * MB]
      [] environment.NODE_ENV = "development" ->
            [DefaultConfig EXCEPT !.maxFileSize = 100 * MB]
      [] OTHER ->
            [DefaultConfig EXCEPT !.requireAbsolutePath = TRUE, !.maxFileSize = 50 * MB,
                                  !.expectedHash = environment.SWIFT_BINARY_HASH]

\* ---- the validator ----
\* a BinaryValidationError(code, message), or an error of another class
ValidationError(code, message) == [ok |-> FALSE, code |-> code, message |-> message]
UnexpectedError(message) == [ok |-> FALSE, code |-> "", message |-> message]
Passed == [ok |-> TRUE, code |-> "", message |-> ""]

pathAllowed(normalized, allowedPaths) ==
    \E i \in 1..Len(allowedPaths) : includes(normalized, allowedPaths[i])

\* a validator that looks for the allowed fragments in the path as it was given
validateBinaryPathRaw(path, config, files) ==
    LET file == fileAt(files, path) IN
    IF config.requireAbsolutePath /\ ~isAbsolute(path)
    THEN ValidationError("INVALID_PATH", "Binary path must be absolute")
    ELSE IF ~pathAllowed(path, config.allowedPaths)
    THEN ValidationError("PATH_NOT_ALLOWED", "Binary path not in allowed directories")
    ELSE IF file.exists = "throws" THEN UnexpectedError("Unexpected filesystem error")
    ELSE IF file.exists = "no"
    THEN ValidationError("FILE_NOT_FOUND", "Binary file not found")
    ELSE IF ~file.isFile
    THEN ValidationError("NOT_A_FILE", "Binary path does not point to a file")
    ELSE IF file.size > config.maxFileSize
    THEN ValidationError("FILE_TOO_LARGE", "Binary file too large")
    ELSE IF ~file.executable
    THEN ValidationError("NOT_EXECUTABLE", "Binary file is not executable")
    ELSE Passed

\* a validator that looks at the file before it looks at the path
validateBinaryPathFileFirst(path, config, files) ==
    LET normalized == normalize(path)
        file == files[normalized]
    IN
    IF file.exists = "throws" THEN UnexpectedError("Unexpected filesystem error")
    ELSE IF file.exists = "no"
    THEN ValidationError("FILE_NOT_FOUND", "Binary file not found")
    ELSE IF config.requireAbsolutePath /\ ~isAbsolute(path)
    THEN ValidationError("INVALID_PATH", "Binary path must be absolute")
    ELSE IF ~pathAllowed(normalized, config.allowedPaths)
    THEN ValidationError("PATH_NOT_ALLOWED", "Binary path not in allowed directories")
    ELSE IF ~file.isFile
    THEN ValidationError("NOT_A_FILE", "Binary path does not point to a file")
    ELSE IF file.size > config.maxFileSize
    THEN ValidationError("FILE_TOO_LARGE", "Binary file too large")
    ELSE IF ~file.executable
    THEN ValidationError("NOT_EXECUTABLE", "Binary file is not executable")
    ELSE Passed

\* validateBinaryPath(path, config): what it throws, or Passed
validateBinaryPath(path, config, files) ==
    CHOOSE verdict \in
        {LET file == files[normalized] IN
         IF config.requireAbsolutePath /\ ~isAbsolute(path)
         THEN ValidationError("INVALID_PATH", "Binary path must be absolute")
         ELSE IF ~pathAllowed(normalized, config.allowedPaths)
         THEN ValidationError("PATH_NOT_ALLOWED", "Binary path not in allowed directories")
         ELSE IF file.exists = "throws" THEN UnexpectedError("Unexpected filesystem error")
         ELSE IF file.exists = "no"
         THEN ValidationError("FILE_NOT_FOUND", "Binary file not found")
         ELSE IF ~file.isFile
         THEN ValidationError("NOT_A_FILE", "Binary path does not point to a file")
         ELSE IF file.size > config.maxFileSize
         THEN ValidationError("FILE_TOO_LARGE", "Binary file too large")
         ELSE IF ~file.executable
         THEN ValidationError("NOT_EXECUTABLE", "Binary file is not executable")
         ELSE Passed
           : normalized \in {normalize(path)}} : TRUE

\* createHash('sha256').update(bytes).digest('hex'), on the contents of the model
sha256(content) ==
    IF content = "binary content"
    THEN "93a0b24644f2e0fd11d6b422c90275c482b0cc20be4a4e3f62148ed2932b4792"
    ELSE "3109af4bf22dace5fa33b410c9f2e40dc1eed214d6c2b9ea0848a17f187ef661"

\* calculateBinaryHash(path): the digest, or the error it throws
calculateBinaryHash(path, files) ==
    CHOOSE digest \in
        {IF file.exists # "yes" \/ file.content = Unreadable
         THEN [ok |-> FALSE, code |-> "HASH_COMPUTE_FAILED",
               message |-> "Failed to calculate binary hash", hash |-> ""]
         ELSE [ok |-> TRUE, code |-> "", message |-> "", hash |-> sha256(file.content)]
           : file \in {fileAt(files, path)}} : TRUE

\* an integrity check without a catch: the error of calculateBinaryHash leaves it
validateBinaryIntegrityUncaught(path, expectedHash, files) ==
    LET h == calculateBinaryHash(path, files) IN
    IF h.ok THEN [raised |-> FALSE, value |-> h.hash = expectedHash]
    ELSE [raised |-> TRUE, value |-> FALSE]

\* validateBinaryIntegrity(path, expectedHash):
\* try { return calculateBinaryHash(path) === expectedHash } catch { return false }
validateBinaryIntegrity(path, expectedHash, files) ==
    LET h == calculateBinaryHash(path, files) IN
    IF h.ok THEN [raised |-> FALSE, value |-> h.hash = expectedHash]
    ELSE [raised |-> FALSE, value |-> FALSE]

\* the entry of ValidationResult.errors made from a caught error
errorEntry(e) ==
    IF e.code # "" THEN e.code \o ": " \o e.message
    ELSE "Unexpected validation error: " \o e.message

HashMismatchEntry == "Binary integrity check failed - hash mismatch"

Invalid(entries, hash) ==
    [raised |-> FALSE, isValid |-> FALSE, errors |-> entries, hash |-> hash]
Valid(hash) == [raised |-> FALSE, isValid |-> TRUE, errors |-> <<>>, hash |-> hash]
\* validateBinarySecurity left by an exception instead of a return
Escaped == [raised |-> TRUE, isValid |-> FALSE, errors |-> <<>>, hash |-> JsUndefined]

\* a validateBinarySecurity whose catch handles BinaryValidationError only
validateBinarySecurityTypedOnly(path, config, files) ==
    LET v == validateBinaryPath(path, config, files)
        h == calculateBinaryHash(path, files)
    IN IF ~v.ok
       THEN (IF v.code = "" THEN Escaped ELSE Invalid(<<errorEntry(v)>>, JsUndefined))
       ELSE IF ~h.ok THEN Invalid(<<errorEntry(h)>>, JsUndefined)
       ELSE IF config.expectedHash.t = "string" /\ h.hash # config.expectedHash.v
            THEN Invalid(<<HashMismatchEntry>>, JsStr(h.hash))
            ELSE Valid(JsStr(h.hash))

\* a validateBinarySecurity that records the hash and compares it with nothing
validateBinarySecurityNoHashCheck(path, config, files) ==
    LET v == validateBinaryPath(path, config, files)
        h == calculateBinaryHash(path, files)
    IN IF ~v.ok THEN Invalid(<<errorEntry(v)>>, JsUndefined)
       ELSE IF ~h.ok THEN Invalid(<<errorEntry(h)>>, JsUndefined)
       ELSE Valid(JsStr(h.hash))

\* validateBinarySecurity(path, config): never throws, reports in its result
validateBinarySecurity(path, config, files) ==
    CHOOSE result \in
        {IF ~v.ok THEN Invalid(<<errorEntry(v)>>, JsUndefined)
         ELSE CHOOSE hashed \in
                {IF ~h.ok THEN Invalid(<<errorEntry(h)>>, JsUndefined)
                 ELSE IF config.expectedHash.t = "string" /\ h.hash # config.expectedHash.v
                      THEN Invalid(<<HashMismatchEntry>>, JsStr(h.hash))
                      ELSE Valid(JsStr(h.hash))
                   : h \in {calculateBinaryHash(path, files)}} : TRUE
           : v \in {validateBinaryPath(path, config, files)}} : TRUE

\* what findSecureBinaryPath returns, with the validateBinarySecurity calls it
\* made (path and verdict of each, in order)
NotFound(validated) ==
    [path |-> JsNull, hasResult |-> FALSE, validationResult |-> Escaped,
     validated |-> validated]
Found(p, res, validated) ==
    [path |-> JsStr(p), hasResult |-> TRUE, validationResult |-> res,
     validated |-> validated]

\* a scan that goes through the whole list and keeps the last candidate that validates
RECURSIVE scanKeepLast(_, _, _, _, _)
scanKeepLast(paths, config, files, validated, best) ==
    IF paths = <<>>
    THEN [best EXCEPT !.validated = validated]
    ELSE LET res == validateBinarySecurity(Head(paths), config, files)
             seen == Append(validated, [path |-> Head(paths), isValid |-> res.isValid])
         IN scanKeepLast(Tail(paths), config, files, seen,
                         IF res.isValid THEN Found(Head(paths), res, seen) ELSE best)

findSecureBinaryPathLast(paths, config, files) ==
    scanKeepLast(paths, config, files, <<>>, NotFound(<<>>))

\* for (const path of paths) { result = validate(path); if (result.isValid) return }
RECURSIVE scanPaths(_, _, _, _)
scanPaths(paths, config, files, validated) ==
    IF paths = <<>> THEN NotFound(validated)
    ELSE LET res == validateBinarySecurity(Head(paths), config, files)
             seen == Append(validated, [path |-> Head(paths), isValid |-> res.isValid])
         IN IF res.isValid THEN Found(Head(paths), res, seen)
            ELSE scanPaths(Tail(paths), config, files, seen)

\* findSecureBinaryPath(paths, config)
findSecureBinaryPath(paths, config, files) == scanPaths(paths, config, files, <<>>)

\* the validateBinarySecurity calls findSecureBinaryPath makes, as events of the call
validationsOf(paths, config, files) ==
    LET validated == findSecureBinaryPath(paths, config, files).validated
    IN [i \in 1..Len(validated) |->
           [ev |-> "validate", path |-> validated[i].path,
            isValid |-> validated[i].isValid, args |-> <<>>]]

(***************************************************************************)
(* executeCli                                                              *)
(***************************************************************************)
ProjectRoots == {"/test/project", "/custom/project/path"}
SWIFT_BINARY_NAME == "EventKitCLI"

ArgVectors == {<<"--action", "read">>,
               <<"--action", "read-events">>,
               <<"--title", "Test", "--action", "update-event">>,
               <<"--title", "Test", "--action">>,
               <<"--id", "123">>}

\* path.join(projectRoot, 'bin', binaryName), for the roots of the model
possiblePaths(root) == <<root \o "/bin/" \o SWIFT_BINARY_NAME>>

Candidates == {possiblePaths(r)[1] : r \in ProjectRoots}

\* the environments a call runs in; SWIFT_BINARY_HASH is read in production only
ReleaseHash == JsStr(sha256("binary content"))
Environments ==
    {e \in [NODE_ENV : NodeEnvs, SWIFT_BINARY_HASH : {JsUndefined, ReleaseHash}] :
        e.NODE_ENV # "production" => e.SWIFT_BINARY_HASH = JsUndefined}

\* { ...getEnvironmentBinaryConfig(), allowedPaths: [...] }
executeCliConfig ==
    [getEnvironmentBinaryConfig(env) EXCEPT
        !.allowedPaths = <<"/bin/", "/dist/swift/bin/", "/src/swift/bin/", "/swift/bin/">>]

RECURSIVE joinPaths(_)
joinPaths(paths) ==
    IF paths = <<>> THEN ""
    ELSE IF Len(paths) = 1 THEN paths[1]
    ELSE paths[1] \o ", " \o joinPaths(Tail(paths))

\* a selection that trusts the first candidate without looking at its validation
selectCliPathUnchecked(paths, config, files) == JsStr(paths[1])

\* const { path: cliPath } = findSecureBinaryPath(possiblePaths, config)
selectCliPath(paths, config, files) == findSecureBinaryPath(paths, config, files).path

\* a message that names no path
notFoundMessageBare(paths) == "EventKitCLI binary not found or validation failed."

notFoundMessage(paths) ==
    "EventKitCLI binary not found or validation failed. Searched: " \o joinPaths(paths)

\* String.prototype.includes, on the messages of the executor
Contains(s, sub) == includes(s, sub)

UpperCase == "ABCDEFGHIJKLMNOPQRSTUVWXYZ"
LowerCase == "abcdefghijklmnopqrstuvwxyz"

\* String.prototype.toLowerCase on the ASCII texts of the model
RECURSIVE toLowerCase(_)
toLowerCase(s) ==
    CHOOSE lowered \in
        {IF str = "" THEN ""
         ELSE IF Len(str) = 1
         THEN LET up == {i \in 1..26 : SubSeq(UpperCase, i, i) = str}
              IN IF up = {} THEN str
                 ELSE LET i == CHOOSE k \in up : TRUE IN SubSeq(LowerCase, i, i)
         ELSE \* character by character, the text taken half by half
              LET half == Len(str) \div 2
              IN toLowerCase(SubSeq(str, 1, half))
                    \o toLowerCase(SubSeq(str, half + 1, Len(str)))
           : str \in {s}} : TRUE

\* a retry of the first attempt whenever its error names a domain, denied or not
executeCliStepRetryOnKeyword(r, attempt) ==
    LET named == /\ attempt = 1
                 /\ r.kind = "throw"
                 /\ \E lower \in {toLowerCase(r.message)} :
                       Contains(lower, "reminder") \/ Contains(lower, "calendar")
    IN [again |-> named, prompt |-> named, domain |-> "reminders"]

\* a retry for as long as the child reports a denied permission
executeCliStepRetryWhileDenied(r, attempt) ==
    LET denied == /\ r.kind = "throw"
                  /\ \E lower \in {toLowerCase(r.message)} :
                        Contains(lower, "permission denied")
    IN [again |-> denied, prompt |-> denied, domain |-> "reminders"]

\* a retry loop: prompt and run the child again after every failure
executeCliStepRetryAlways(r, attempt) ==
    [again |-> r.kind = "throw", prompt |-> r.kind = "throw", domain |-> "reminders"]

\* what executeCli does once runCli has completed with r: `return await runCli(...)`
\* settles the call as runCli settled, starts no other child and prompts nothing
executeCliStep(r, attempt) == [again |-> FALSE, prompt |-> FALSE, domain |-> ""]

Pending == [kind |-> "pending", value |-> JsUndefined, message |-> ""]
Returned(v) == [kind |-> "returned", value |-> v, message |-> ""]
Raised(m) == [kind |-> "raised", value |-> JsUndefined, message |-> m]
Settled(r) == IF r.kind = "return" THEN Returned(r.value) ELSE Raised(r.message)

NoChild == [path |-> "", args |-> <<>>]

RECURSIVE commandLine(_)
commandLine(words) ==
    IF Len(words) = 1 THEN words[1]
    ELSE words[1] \o " " \o commandLine(Tail(words))

\* a spawn through the shell: the path and the arguments concatenated into one
\* command line
execFileShell(cliPath, a) ==
    [path |-> "/bin/sh", args |-> <<"-c", commandLine(<<cliPath>> \o a)>>]

\* execFile(cliPath, args, callback): the program the child process runs and the
\* argument array it receives; no options are passed, so no shell is involved
execFile(cliPath, a) == [path |-> cliPath, args |-> a]
SpawnEvent(p, a) == [ev |-> "spawn", path |-> p, isValid |-> FALSE, args |-> a]
ExitEvent(p) == [ev |-> "exit", path |-> p, isValid |-> FALSE, args |-> <<>>]
\* triggerPermissionPrompt(domain) was called
PromptEvent(domain) ==
    [ev |-> "prompt", path |-> "", isValid |-> FALSE, args |-> <<domain>>]
\* JSON.parse was called on what the child of path printed
ParseEvent(p) == [ev |-> "parse", path |-> p, isValid |-> FALSE, args |-> <<>>]

CountEv(log, kind) == Cardinality({i \in 1..Len(log) : log[i].ev = kind})

\* the behaviour of the n-th child process of the call
Behaviour(n) == IF n <= 1 THEN script.first ELSE script.next

\* what a child started after the first one reports, in the runs of the model
RetryBehaviours ==
    {[error |-> NoError, stdout |-> JsStr(SuccessText1)],
     [error |-> NoError, stdout |-> JsStr(PermissionText)],
     [error |-> NoError, stdout |-> JsStr(ReadErrorText)],
     [error |-> [t |-> "Error", message |-> "Command failed"], stdout |-> JsStr("")]}

\* executeCli(args) up to its first await: path selection, then the spawn
executeCli ==
    /\ pc = "idle"
    /\ \E paths \in {possiblePaths(projectRoot)}, config \in {executeCliConfig} :
       \E cliPath \in {selectCliPath(paths, config, fs)},
          log \in {validationsOf(paths, config, fs)} :
             IF ~Truthy(cliPath)
                THEN /\ pc' = "done"
                     /\ outcome' = Raised(notFoundMessage(paths))
                     /\ child' = NoChild
                     /\ events' = log
                ELSE /\ pc' = "running"
                     /\ outcome' = Pending
                     /\ \E started \in {execFile(cliPath.v, args)} :
                           /\ child' = started
                           /\ events' = Append(log, SpawnEvent(started.path, started.args))
    /\ UNCHANGED <<args, projectRoot, env, fs, script, request, promptVars, validatorVars>>

\* the execFile callback: the child has exited, runCli and executeCli resume
execFileCallback ==
    /\ pc = "running"
    /\ \E n \in {CountEv(events, "spawn")} :
       \E r \in {runCli(Behaviour(n))} :
       \E step \in {executeCliStep(r, n)} :
       LET exited == Append(events, ExitEvent(child.path))
           read == IF r.parsed THEN Append(exited, ParseEvent(child.path)) ELSE exited
           prompted == IF step.prompt THEN Append(read, PromptEvent(step.domain)) ELSE read
       IN /\ step.again => n < MaxSpawns
          /\ IF step.again
             THEN /\ events' = Append(prompted, SpawnEvent(child.path, child.args))
                  /\ UNCHANGED <<pc, outcome, child>>
             ELSE /\ events' = prompted
                  /\ pc' = "done"
                  /\ outcome' = Settled(r)
                  /\ child' = NoChild
    /\ UNCHANGED <<args, projectRoot, env, fs, script, request, promptVars, validatorVars>>

(***************************************************************************)
(* helpers.ts and the argument vectors of reminderRepository.ts            *)
(***************************************************************************)
\* numbers and booleans carry the text String(value) gives; arrays carry their
\* items, numbers as their text
JsNum(s) == [t |-> "number", v |-> s]
JsBool(s) == [t |-> "boolean", v |-> s]
JsArr(xs) == [t |-> "array", items |-> xs]
ArrUndefined == [t |-> "undefined", items |-> <<>>]

\* Array.prototype.join(',')
RECURSIVE joinComma(_)
joinComma(xs) ==
    IF xs = <<>> THEN ""
    ELSE IF Len(xs) = 1 THEN xs[1]
    ELSE xs[1] \o "," \o joinComma(Tail(xs))

\* the earlier helper, which tested `if (value)` and so dropped the empty string
addOptionalArgTruthy(a, flag, value) ==
    IF Truthy(value) THEN a \o <<flag, value.v>> ELSE a

addOptionalArg(a, flag, value) ==
    IF value.t # "undefined" THEN a \o <<flag, value.v>> ELSE a

addOptionalBooleanArg(a, flag, value) ==
    IF value.t # "undefined" THEN a \o <<flag, value.v>> ELSE a

addOptionalNumberArg(a, flag, value) ==
    IF value.t # "undefined" THEN a \o <<flag, value.v>> ELSE a

addOptionalStringArrayArg(a, flag, value) ==
    IF value.t # "undefined" /\ Len(value.items) > 0
    THEN a \o <<flag, joinComma(value.items)>>
    ELSE a

addOptionalNumberArrayArg(a, flag, value) ==
    IF value.t # "undefined" /\ Len(value.items) > 0
    THEN a \o <<flag, joinComma(value.items)>>
    ELSE a

\* the calls both createReminder and updateReminder make for the geofence and
\* recurrence fields, in the order of the code
geofenceAndRecurrenceArgs(a, data) ==
    LET g1 == addOptionalArg(a, "--geofenceTitle", data.geofenceTitle)
        g2 == addOptionalNumberArg(g1, "--geofenceLatitude", data.geofenceLatitude)
        g3 == addOptionalNumberArg(g2, "--geofenceLongitude", data.geofenceLongitude)
        g4 == addOptionalNumberArg(g3, "--geofenceRadius", data.geofenceRadius)
        g5 == addOptionalArg(g4, "--geofenceProximity", data.geofenceProximity)
        r1 == addOptionalArg(g5, "--recurrenceFrequency", data.recurrenceFrequency)
        r2 == addOptionalNumberArg(r1, "--recurrenceInterval", data.recurrenceInterval)
        r3 == addOptionalArg(r2, "--recurrenceEndDate", data.recurrenceEndDate)
        r4 == addOptionalNumberArg(r3, "--recurrenceOccurrenceCount",
                                   data.recurrenceOccurrenceCount)
        r5 == addOptionalStringArrayArg(r4, "--recurrenceDaysOfWeek",
                                        data.recurrenceDaysOfWeek)
        r6 == addOptionalNumberArrayArg(r5, "--recurrenceDaysOfMonth",
                                        data.recurrenceDaysOfMonth)
        r7 == addOptionalNumberArrayArg(r6, "--recurrenceMonthsOfYear",
                                        data.recurrenceMonthsOfYear)
        r8 == addOptionalNumberArrayArg(r7, "--recurrenceWeeksOfYear",
                                        data.recurrenceWeeksOfYear)
        r9 == addOptionalNumberArrayArg(r8, "--recurrenceDaysOfYear",
                                        data.recurrenceDaysOfYear)
    IN addOptionalNumberArrayArg(r9, "--recurrenceSetPositions",
                                 data.recurrenceSetPositions)

createReminderArgs(data) ==
    LET a0 == <<"--action", "create", "--title", data.title.v>>
        a1 == addOptionalArg(a0, "--targetList", data.list)
        a2 == addOptionalArg(a1, "--note", data.notes)
        a3 == addOptionalArg(a2, "--url", data.url)
        a4 == addOptionalArg(a3, "--dueDate", data.dueDate)
        a5 == addOptionalNumberArg(a4, "--priority", data.priority)
        a6 == addOptionalBooleanArg(a5, "--isCompleted", data.isCompleted)
    IN geofenceAndRecurrenceArgs(a6, data)

updateReminderArgs(data) ==
    LET a0 == <<"--action", "update", "--id", data.id.v>>
        a1 == addOptionalArg(a0, "--title", data.newTitle)
        a2 == addOptionalArg(a1, "--targetList", data.list)
        a3 == addOptionalArg(a2, "--note", data.notes)
        a4 == addOptionalArg(a3, "--url", data.url)
        a5 == addOptionalArg(a4, "--dueDate", data.dueDate)
        a6 == addOptionalBooleanArg(a5, "--isCompleted", data.isCompleted)
        a7 == addOptionalNumberArg(a6, "--priority", data.priority)
    IN addOptionalBooleanArg(geofenceAndRecurrenceArgs(a7, data),
                             "--clearRecurrence", data.clearRecurrence)

createReminderListArgs(data) ==
    addOptionalArg(<<"--action", "create-list", "--name", data.name.v>>,
                   "--color", data.color)

\* the data of a repository call with every field undefined
NoData ==
    [title |-> JsUndefined, id |-> JsUndefined, name |-> JsUndefined,
     newTitle |-> JsUndefined, color |-> JsUndefined,
     list |-> JsUndefined, notes |-> JsUndefined, url |-> JsUndefined,
     dueDate |-> JsUndefined, priority |-> JsUndefined, isCompleted |-> JsUndefined,
     geofenceTitle |-> JsUndefined, geofenceLatitude |-> JsUndefined,
     geofenceLongitude |-> JsUndefined, geofenceRadius |-> JsUndefined,
     geofenceProximity |-> JsUndefined, recurrenceFrequency |-> JsUndefined,
     recurrenceInterval |-> JsUndefined, recurrenceEndDate |-> JsUndefined,
     recurrenceOccurrenceCount |-> JsUndefined,
     recurrenceDaysOfWeek |-> ArrUndefined, recurrenceDaysOfMonth |-> ArrUndefined,
     recurrenceMonthsOfYear |-> ArrUndefined, recurrenceWeeksOfYear |-> ArrUndefined,
     recurrenceDaysOfYear |-> ArrUndefined, recurrenceSetPositions |-> ArrUndefined,
     clearRecurrence |-> JsUndefined]

NoRequest == [op |-> "none", data |-> NoData]

\* the optional fields the calls of the model give a value to
OptionalData ==
    {[NoData EXCEPT !.notes = n, !.geofenceTitle = g, !.priority = p,
                    !.geofenceRadius = r, !.recurrenceDaysOfWeek = w,
                    !.recurrenceDaysOfMonth = m] :
        n \in {JsUndefined, JsStr(""), JsStr("Note")},
        g \in {JsUndefined, JsStr(""), JsStr("Home")},
        p \in {JsUndefined, JsNum("0")},
        r \in {JsUndefined, JsNum("100")},
        w \in {ArrUndefined, JsArr(<<>>), JsArr(<<"MO", "WE">>)},
        m \in {ArrUndefined, JsArr(<<"1", "15">>)}}

Requests ==
    {[op |-> "createReminder", data |-> [d EXCEPT !.title = JsStr("Test")]] :
        d \in OptionalData}
    \cup {[op |-> "updateReminder",
           data |-> [d EXCEPT !.id = JsStr("123"), !.newTitle = t, !.isCompleted = c]] :
             d \in OptionalData,
             t \in {JsUndefined, JsStr("")},
             c \in {JsUndefined, JsBool("false")}}
    \cup {[op |-> "createReminderList",
           data |-> [NoData EXCEPT !.name = JsStr("Work"), !.color = c]] :
             c \in {JsUndefined, JsStr(""), JsStr("#FF0000")}}

\* a repository method up to its call of executeCli(args)
createReminder ==
    /\ pc = "caller"
    /\ request.op = "createReminder"
    /\ args' = createReminderArgs(request.data)
    /\ pc' = "idle"
    /\ UNCHANGED <<projectRoot, env, fs, script, child, events, outcome, request,
                   promptVars, validatorVars>>

updateReminder ==
    /\ pc = "caller"
    /\ request.op = "updateReminder"
    /\ args' = updateReminderArgs(request.data)
    /\ pc' = "idle"
    /\ UNCHANGED <<projectRoot, env, fs, script, child, events, outcome, request,
                   promptVars, validatorVars>>

createReminderList ==
    /\ pc = "caller"
    /\ request.op = "createReminderList"
    /\ args' = createReminderListArgs(request.data)
    /\ pc' = "idle"
    /\ UNCHANGED <<projectRoot, env, fs, script, child, events, outcome, request,
                   promptVars, validatorVars>>

\* a caller is about to invoke a repository method
RepositoryInit ==
    /\ pc = "caller"
    /\ request \in Requests
    /\ args = <<>>
    /\ projectRoot = "/test/project"
    /\ env = [NODE_ENV |-> "test", SWIFT_BINARY_HASH |-> JsUndefined]
    /\ fs = [p \in Candidates |->
                IF p = possiblePaths(projectRoot)[1] THEN OkFile ELSE MissingFile]
    /\ script \in [first : {[error |-> NoError, stdout |-> JsStr(SuccessText2)],
                            [error |-> NoError, stdout |-> JsStr(ReadErrorText)]},
                   next : {[error |-> NoError, stdout |-> JsStr(SuccessText1)]}]
    /\ child = NoChild
    /\ events = <<>>
    /\ outcome = Pending

\* no executeCli call in this process
ExecIdle ==
    /\ pc = "none"
    /\ args = <<>>
    /\ projectRoot = "/test/project"
    /\ env = [NODE_ENV |-> "test", SWIFT_BINARY_HASH |-> JsUndefined]
    /\ fs = [p \in Candidates |-> MissingFile]
    /\ script = [first |-> [error |-> NoError, stdout |-> JsNull],
                 next |-> [error |-> NoError, stdout |-> JsNull]]
    /\ child = NoChild
    /\ events = <<>>
    /\ outcome = Pending
    /\ request = NoRequest

\* a caller is about to call executeCli(args); the environment of the call is any
\* project root, any process environment, any state of the file at the candidate
\* path of that root (nothing else of the filesystem is looked at) and any
\* behaviour of the children
ExecInit ==
    /\ pc = "idle"
    /\ args \in ArgVectors
    /\ projectRoot \in ProjectRoots
    /\ env \in Environments
    /\ \E f \in FileStates :
          fs = [p \in Candidates |->
                   IF p = possiblePaths(projectRoot)[1] THEN f ELSE MissingFile]
    /\ script \in [first : ChildBehaviours, next : RetryBehaviours]
    /\ child = NoChild
    /\ events = <<>>
    /\ outcome = Pending
    /\ request = NoRequest

(***************************************************************************)
(* triggerPermissionPrompt.  The source defines the function, with its own *)
(* promptedDomains set, twice: at lines 87-102 (one parameter) and at      *)
(* lines 142-166 (with the force parameter).  A process runs one of the    *)
(* two; which one is fixed when the process starts (variable loaded).      *)
(***************************************************************************)
Domains == {"reminders", "calendars"}

\* the script handed to osascript -e for each domain
APPLESCRIPT_SNIPPETS ==
    [d \in Domains |->
        IF d = "reminders"
        THEN "tell application \"Reminders\" to get the name of every list"
        ELSE "tell application \"Calendar\" to get the name of every calendar"]

\* how the osascript probe can end: exit status 0, or a rejection of execFileAsync
\* with an Error (nonzero exit, spawn failure) or with a value that is no Error
ProbeOk == [kind |-> "ok", message |-> ""]
ProbeFailures == {[kind |-> "Error", message |-> "osascript failed"],
                  [kind |-> "string", message |-> "string error"]}
ProbeOutcomes == {ProbeOk} \cup ProbeFailures
NoProbe == [kind |-> "none", message |-> ""]

CallIds == 1..MaxCalls

\* state: "free" (not made yet), "awaiting" (suspended on the probe), "settled"
\* ranProbe: the call invoked osascript, with the script in command;
\* probe: how its probe ended
\* result, message: how the promise of the call settled
\* history kept for the properties, until the set is reset -
\*   stale: resetPromptedDomains ran after the call started
\*   overlap: the calls for the same domain suspended on their probe when this one started
\*   after: a call that ran the probe for the same domain had settled when this one started
FreeCall == [state |-> "free", domain |-> "reminders", force |-> FALSE,
             ranProbe |-> FALSE, command |-> "", probe |-> NoProbe, result |-> "pending",
             message |-> "", stale |-> FALSE, overlap |-> {}, after |-> FALSE]

InFlight(d) ==
    {c \in CallIds : calls[c].state = "awaiting" /\ calls[c].domain = d /\ ~calls[c].stale}
ProbedBefore(d) ==
    \E c \in CallIds : /\ calls[c].state = "settled" /\ calls[c].domain = d
                       /\ calls[c].ranProbe /\ ~calls[c].stale

\* the next call made takes the first free slot
NextCall(c) == calls[c].state = "free" /\ \A b \in 1..(c - 1) : calls[b].state # "free"

Started(c, d, f, probing) ==
    [FreeCall EXCEPT !.state = IF probing THEN "awaiting" ELSE "settled",
                     !.domain = d, !.force = f, !.ranProbe = probing,
                     !.command = IF probing THEN APPLESCRIPT_SNIPPETS[d] ELSE "",
                     !.result = IF probing THEN "pending" ELSE "resolved",
                     !.overlap = InFlight(d), !.after = ProbedBefore(d)]

hasBeenPrompted(domain) == domain \in promptedDomains

\* ---- first definition (lines 87-102) ----
\* if (promptedDomains.has(domain)) return;
promptSkipped1(domain, prompted) == domain \in prompted

\* a catch block that leaves the set alone when the probe fails
afterProbe1MarkOnSuccess(domain, probe, prompted) ==
    [prompted |-> IF probe.kind = "ok" THEN prompted \cup {domain} ELSE prompted,
     result |-> "resolved", message |-> ""]

\* try { await execFileAsync(...); add } catch { add }
afterProbe1(domain, probe, prompted) ==
    [prompted |-> prompted \cup {domain}, result |-> "resolved", message |-> ""]

\* triggerPermissionPrompt(domain) up to its first await
triggerPermissionPrompt1 ==
    /\ loaded = 1
    /\ \E c \in CallIds, d \in Domains :
          /\ NextCall(c)
          /\ calls' = [calls EXCEPT ![c] =
                          Started(c, d, FALSE, ~promptSkipped1(d, promptedDomains))]
    /\ UNCHANGED <<loaded, promptedDomains, execVars, validatorVars>>

\* the probe of a suspended call ends and the call resumes
triggerPermissionPrompt1Resume ==
    /\ loaded = 1
    /\ \E c \in CallIds, o \in ProbeOutcomes :
          /\ calls[c].state = "awaiting"
          /\ LET r == afterProbe1(calls[c].domain, o, promptedDomains)
             IN /\ promptedDomains' = r.prompted
                /\ calls' = [calls EXCEPT ![c].state = "settled", ![c].probe = o,
                                          ![c].result = r.result, ![c].message = r.message]
    /\ UNCHANGED <<loaded, execVars, validatorVars>>

\* ---- second definition (lines 142-166) ----
\* a memoization check that does not look at force
promptSkipped2IgnoreForce(domain, force, prompted) == domain \in prompted

\* if (!force && promptedDomains.has(domain)) return;
promptSkipped2(domain, force, prompted) == ~force /\ domain \in prompted

\* one flag for the two domains: a non-forced call marks both
markBeforeProbe2All(domain, force, prompted) ==
    IF ~force THEN Domains ELSE prompted

\* if (!force) promptedDomains.add(domain);
markBeforeProbe2(domain, force, prompted) ==
    IF ~force THEN prompted \cup {domain} ELSE prompted

\* a catch block that reports the failure of the probe to the caller
afterProbe2Rethrow(domain, force, probe, prompted) ==
    [prompted |-> IF force THEN prompted \cup {domain} ELSE prompted,
     result |-> IF probe.kind = "ok" THEN "resolved" ELSE "rejected",
     message |-> IF probe.kind = "ok" THEN ""
                 ELSE "Failed to trigger " \o domain \o " permission prompt: "
                          \o probe.message]

\* try { await execFileAsync(...); if (force) add } catch { if (force) add }
afterProbe2(domain, force, probe, prompted) ==
    [prompted |-> IF force THEN prompted \cup {domain} ELSE prompted,
     result |-> "resolved", message |-> ""]

\* triggerPermissionPrompt(domain, force) up to its first await
triggerPermissionPrompt2 ==
    /\ loaded = 2
    /\ \E c \in CallIds, d \in Domains, f \in BOOLEAN :
          /\ NextCall(c)
          /\ IF promptSkipped2(d, f, promptedDomains)
             THEN /\ calls' = [calls EXCEPT ![c] = Started(c, d, f, FALSE)]
                  /\ UNCHANGED promptedDomains
             ELSE /\ calls' = [calls EXCEPT ![c] = Started(c, d, f, TRUE)]
                  /\ promptedDomains' = markBeforeProbe2(d, f, promptedDomains)
    /\ UNCHANGED <<loaded, execVars, validatorVars>>

\* the probe of a suspended call ends and the call resumes
triggerPermissionPrompt2Resume ==
    /\ loaded = 2
    /\ \E c \in CallIds, o \in ProbeOutcomes :
          /\ calls[c].state = "awaiting"
          /\ LET r == afterProbe2(calls[c].domain, calls[c].force, o, promptedDomains)
             IN /\ promptedDomains' = r.prompted
                /\ calls' = [calls EXCEPT ![c].state = "settled", ![c].probe = o,
                                          ![c].result = r.result, ![c].message = r.message]
    /\ UNCHANGED <<loaded, execVars, validatorVars>>

\* what is remembered of a call once the set has been reset: a suspended call
\* keeps what it needs to resume, a settled call only how it settled
Forgotten(call) ==
    IF call.state = "free" THEN call
    ELSE IF call.state = "awaiting"
         THEN [call EXCEPT !.stale = TRUE, !.overlap = {}, !.after = FALSE]
         ELSE [FreeCall EXCEPT !.state = "settled", !.stale = TRUE,
                               !.result = call.result, !.message = call.message]

resetPromptedDomains ==
    /\ promptedDomains' = {}
    /\ calls' = [c \in CallIds |-> Forgotten(calls[c])]
    /\ UNCHANGED <<loaded, execVars, validatorVars>>

\* no triggerPermissionPrompt call in this process
PromptIdle ==
    /\ loaded = 2
    /\ promptedDomains = {}
    /\ calls = [c \in CallIds |-> FreeCall]

PromptInit ==
    /\ loaded \in {1, 2}
    /\ promptedDomains = {}
    /\ calls = [c \in CallIds |-> FreeCall]

(***************************************************************************)
(* Direct calls of the validator functions                                 *)
(***************************************************************************)
ValidPath == "/project/dist/swift/bin/EventKitCLI"
TraversalPath == "/project/bin/../../../etc/passwd"
InsidePath == "/project/dist/swift/bin/../bin/EventKitCLI"
OutsidePath == "/usr/local/bin/malicious"
RelativePath == "swift/bin/EventKitCLI"
RelativeBinPath == "relative/path/bin/EventKitCLI"
InvalidPath == "/invalid/path/bin/EventKitCLI"
AnotherPath == "/another/path/bin/EventKitCLI"
BadPath == "/bad/bin/x"

RawPaths ==
    {ValidPath, TraversalPath, InsidePath, OutsidePath, RelativePath, RelativeBinPath,
     InvalidPath, AnotherPath, BadPath}

\* the places of the filesystem the paths of the model lead to
RealPaths ==
    {ValidPath, "/etc/passwd", OutsidePath, RelativePath, RelativeBinPath, InvalidPath,
     AnotherPath, BadPath}

PathLists ==
    {<<p>> : p \in RawPaths \ {AnotherPath, BadPath}}
    \cup {<<>>,
          <<InvalidPath, ValidPath, AnotherPath>>,
          <<InsidePath, TraversalPath, ValidPath>>,
          <<InvalidPath, AnotherPath>>,
          <<BadPath, ValidPath>>}

AllowedPathLists ==
    {DefaultAllowedPaths,
     <<"/bin/", "/dist/swift/bin/", "/src/swift/bin/", "/swift/bin/">>,
     <<"/swift/bin/", "swift/bin/">>}

ExpectedHashes == {JsUndefined, ReleaseHash, JsStr("different-hash")}

Configs ==
    [requireAbsolutePath : BOOLEAN, allowedPaths : AllowedPathLists,
     maxFileSize : {50 * MB, 100 * MB}, expectedHash : ExpectedHashes]

NoOutput == [raised |-> FALSE, value |-> FALSE]

\* validateBinaryPath(path, config), called on the first path of the list
validateBinaryPathCall ==
    /\ vop = "idle"
    /\ vpaths # <<>>
    /\ vop' = "validateBinaryPath"
    /\ vout' = validateBinaryPath(vpaths[1], vconfig, vfiles)
    /\ UNCHANGED <<vpaths, vconfig, vfiles, execVars, promptVars>>

\* validateBinaryIntegrity(path, expectedHash), called on the first path of the list
validateBinaryIntegrityCall ==
    /\ vop = "idle"
    /\ vpaths # <<>>
    /\ vconfig.expectedHash.t = "string"
    /\ vop' = "validateBinaryIntegrity"
    /\ vout' = validateBinaryIntegrity(vpaths[1], vconfig.expectedHash.v, vfiles)
    /\ UNCHANGED <<vpaths, vconfig, vfiles, execVars, promptVars>>

\* validateBinarySecurity(path, config), called on the first path of the list
validateBinarySecurityCall ==
    /\ vop = "idle"
    /\ vpaths # <<>>
    /\ vop' = "validateBinarySecurity"
    /\ vout' = validateBinarySecurity(vpaths[1], vconfig, vfiles)
    /\ UNCHANGED <<vpaths, vconfig, vfiles, execVars, promptVars>>

\* findSecureBinaryPath(paths, config)
findSecureBinaryPathCall ==
    /\ vop = "idle"
    /\ vop' = "findSecureBinaryPath"
    /\ vout' = findSecureBinaryPath(vpaths, vconfig, vfiles)
    /\ UNCHANGED <<vpaths, vconfig, vfiles, execVars, promptVars>>

\* no direct call of the validator in this process
ValidatorIdle ==
    /\ vop = "none"
    /\ vpaths = <<>>
    /\ vconfig = DefaultConfig
    /\ vfiles = [p \in RealPaths |-> MissingFile]
    /\ vout = NoOutput

\* the state the other files of the model are in
OtherFileStates == {OkFile, MissingFile, [OkFile EXCEPT !.content = "tampered content"]}

\* a caller is about to apply a validator function to a list of candidates, with
\* any configuration; the file the first candidate leads to is in any state, the
\* other files of the model are all in one of the states of OtherFileStates
ValidatorInit ==
    /\ vop = "idle"
    /\ vpaths \in PathLists
    /\ vconfig \in Configs
    /\ \E f \in Files, g \in OtherFileStates :
          \E first \in {IF vpaths = <<>> THEN "" ELSE normalize(vpaths[1])} :
              vfiles = [p \in RealPaths |-> IF p = first THEN f ELSE g]
    /\ vout = NoOutput

Init == ExecInit /\ PromptIdle /\ ValidatorIdle

Next == executeCli \/ execFileCallback

\* one executeCli call, in any environment
Spec == Init /\ [][Next]_vars

\* a caller is about to call executeCli(args) in the test environment, with the
\* binary in place and usable, or missing, or not executable
FairInit ==
    /\ pc = "idle"
    /\ args \in ArgVectors
    /\ projectRoot = "/test/project"
    /\ env = [NODE_ENV |-> "test", SWIFT_BINARY_HASH |-> JsUndefined]
    /\ \E f \in {OkFile, MissingFile, [OkFile EXCEPT !.executable = FALSE]} :
          fs = [p \in Candidates |->
                   IF p = possiblePaths(projectRoot)[1] THEN f ELSE MissingFile]
    /\ script \in [first : ChildBehaviours, next : RetryBehaviours]
    /\ child = NoChild
    /\ events = <<>>
    /\ outcome = Pending
    /\ request = NoRequest
    /\ PromptIdle /\ ValidatorIdle

\* the synchronous part of executeCli runs once the call is made, and the
\* callback of execFile runs once the child has exited, which every child does
SpecFair ==
    /\ FairInit
    /\ [][Next]_vars
    /\ WF_vars(executeCli) /\ WF_vars(execFileCallback)

InitPrompt == ExecIdle /\ PromptInit /\ ValidatorIdle

NextPrompt ==
    \/ triggerPermissionPrompt1
    \/ triggerPermissionPrompt1Resume
    \/ triggerPermissionPrompt2
    \/ triggerPermissionPrompt2Resume
    \/ resetPromptedDomains

\* up to MaxCalls triggerPermissionPrompt calls, concurrent or not
SpecPrompt == InitPrompt /\ [][NextPrompt]_vars

InitValidator == ExecIdle /\ PromptIdle /\ ValidatorInit

NextValidator ==
    \/ validateBinaryPathCall
    \/ validateBinaryIntegrityCall
    \/ validateBinarySecurityCall
    \/ findSecureBinaryPathCall

\* one direct call of a validator function, on any input
SpecValidator == InitValidator /\ [][NextValidator]_vars

InitRepository == RepositoryInit /\ PromptIdle /\ ValidatorIdle

NextRepository ==
    \/ createReminder
    \/ updateReminder
    \/ createReminderList
    \/ executeCli
    \/ execFileCallback

SpecRepository == InitRepository /\ [][NextRepository]_vars

(***************************************************************************)
(* Properties of executeCli                                                *)
(***************************************************************************)
\* the message is one the permission-denied heuristic matches: a denied
\* permission, with or without a domain keyword before it, or an unqualified
\* denied authorization, in any letter case
PermissionDenied(m) ==
    \E lower \in {toLowerCase(m)} :
        Contains(lower, "permission denied") \/ Contains(lower, "authorization denied")

\* the completion of the first attempt of this call
FirstAttempt == runCli(script.first)
FirstAttemptDenied == FirstAttempt.kind = "throw" /\ PermissionDenied(FirstAttempt.message)

SpawnIndexes == {i \in 1..Len(events) : events[i].ev = "spawn"}

\* C1: one executeCli call starts the child at most twice and prompts at most once;
\* a second child is started only after the first attempt failed with a
\* permission-denied message, and none after a failed retry
C1_AtMostOneRetry ==
    /\ CountEv(events, "spawn") <= 2
    /\ CountEv(events, "prompt") <= 1
    /\ \A i, j \in SpawnIndexes :
          i < j => /\ FirstAttemptDenied
                   /\ \E k \in (i + 1)..(j - 1) : events[k].ev = "exit"

\* a call whose only child printed a permission-denied envelope has settled
C1_Witness ==
    /\ pc = "done"
    /\ CountEv(events, "spawn") = 1
    /\ FirstAttemptDenied
    /\ outcome.kind = "raised"

\* C3: every spawn follows, in the same attempt, a validation of the spawned path
\* that returned isValid = TRUE, and the spawned path is the one
\* findSecureBinaryPath selected
C3_ValidatedBeforeSpawn ==
    \A i \in SpawnIndexes :
        /\ \E j \in 1..(i - 1) :
              /\ events[j].ev = "validate"
              /\ events[j].isValid
              /\ events[j].path = events[i].path
        /\ findSecureBinaryPath(possiblePaths(projectRoot), executeCliConfig, fs).path
              = JsStr(events[i].path)

\* a child of the validated path is running
C3_Witness ==
    /\ pc = "running"
    /\ fs[child.path] = OkFile
    /\ CountEv(events, "validate") = 1
    /\ CountEv(events, "spawn") = 1

\* the envelope printed by the first child, when its stdout parses
FirstStdout == bufferToString(script.first.stdout)
FirstEnvelopeParses == Truthy(FirstStdout) /\ JSONparse(FirstStdout.v).ok
FirstEnvelope == JSONparse(FirstStdout.v)
Spawned == CountEv(events, "spawn") >= 1

\* C4: an error envelope {status: "error", message: m} makes executeCli raise exactly
\* m, whether the child exited with zero or nonzero status
C4_ErrorEnvelopePassThrough ==
    (pc = "done" /\ Spawned /\ FirstEnvelopeParses /\ FirstEnvelope.status = JsStr("error"))
        => outcome = Raised(FirstEnvelope.message.v)

\* C5: for a stdout that parses as an envelope, the outcome is what it would be
\* under any other exit status of the child
C5_ExitStatusIrrelevant ==
    (pc = "done" /\ Spawned /\ FirstEnvelopeParses)
        => \A e \in {NoError} \cup ExecErrors :
              outcome = Settled(runCli([error |-> e, stdout |-> script.first.stdout]))

\* C6: after a first attempt that failed with a permission error, the outcome of
\* executeCli is the outcome of the retry, never the first attempt's error
C6_RetryOutcomeWins ==
    (pc = "done" /\ Spawned /\ FirstAttemptDenied)
        => outcome = Settled(runCli(script.next))

NoPathSelected ==
    ~Truthy(findSecureBinaryPath(possiblePaths(projectRoot), executeCliConfig, fs).path)

\* C17: when no path is selected, executeCli raises at once with a message that
\* lists every candidate path searched, starts no child and triggers no prompt
C17_NotFoundListsCandidates ==
    (pc # "idle" /\ NoPathSelected) =>
        /\ pc = "done"
        /\ outcome.kind = "raised"
        /\ \A i \in 1..Len(possiblePaths(projectRoot)) :
              Contains(outcome.message, possiblePaths(projectRoot)[i])
        /\ \A k \in 1..Len(events) : events[k].ev = "validate"

\* a call whose only candidate failed validation has raised
C17_Witness ==
    /\ pc = "done"
    /\ NoPathSelected
    /\ outcome.kind = "raised"
    /\ CountEv(events, "validate") = 1
    /\ CountEv(events, "spawn") = 0

\* the first child exited with status 0 and printed nothing (an empty string, an
\* empty buffer or null)
FirstOutputEmpty == script.first.error = NoError /\ ~Truthy(FirstStdout)

\* C18: when the child completes successfully with empty-string or null stdout,
\* executeCli raises an 'Empty CLI output' error, parses nothing and returns no value
C18_EmptyOutputRaises ==
    (pc = "done" /\ Spawned /\ FirstOutputEmpty) =>
        /\ outcome.kind = "raised"
        /\ Contains(outcome.message, "Empty CLI output")
        /\ CountEv(events, "parse") = 0

\* a call whose child exited with status 0 and null stdout has raised
C18_Witness ==
    /\ pc = "done"
    /\ Spawned
    /\ script.first.error = NoError
    /\ script.first.stdout = JsNull
    /\ outcome.kind = "raised"

ExecutionFailedPrefix == "EventKitCLI execution failed: "

\* the first child's failure is of one of the four kinds of execution error
FirstIsErrorEnvelope == FirstEnvelopeParses /\ FirstStdout.v \in {PermissionText, ReadErrorText}
FirstIsMalformed == Truthy(FirstStdout) /\ ~FirstEnvelopeParses
FirstIsSpawnFailure == script.first.error # NoError /\ ~Truthy(FirstStdout)

\* the message of the failure before any wrapping
OriginalMessage ==
    IF FirstIsErrorEnvelope THEN FirstEnvelope.message.v
    ELSE IF FirstIsMalformed THEN "Invalid CLI output"
    ELSE IF FirstIsSpawnFailure THEN script.first.error.message
    ELSE "Empty CLI output"

\* C19: the message of every execution error (spawn failure, malformed output,
\* empty output, error envelope) is the prefix 'EventKitCLI execution failed: ',
\* once, followed by the original message
C19_OnePrefixEverywhere ==
    (/\ pc = "done" /\ Spawned
     /\ FirstIsErrorEnvelope \/ FirstIsMalformed \/ FirstIsSpawnFailure \/ FirstOutputEmpty)
        => outcome = Raised(ExecutionFailedPrefix \o OriginalMessage)

\* C20: executeCli returns a value only when stdout is an object of the shape
\* {status: "success", result}; for every other stdout it raises, and it never
\* returns null or undefined in place of a result
C20_OnlySuccessEnvelopeReturns ==
    (pc = "done" /\ Spawned) =>
        /\ outcome.kind \in {"returned", "raised"}
        /\ outcome.kind = "returned" =>
              /\ Truthy(FirstStdout)
              /\ FirstStdout.v \in {SuccessText1, SuccessText2}
              /\ outcome.value \notin {JsUndefined, JsNull}

\* the value that follows the first --action of an argument vector, undefined
\* when the flag is absent or is the last argument
actionValue(a) ==
    LET at == {i \in 1..Len(a) : a[i] = "--action"} IN
    IF at = {} THEN JsUndefined
    ELSE LET i == CHOOSE k \in at : \A l \in at : k <= l IN
         IF i = Len(a) THEN JsUndefined ELSE JsStr(a[i + 1])

\* the domain the retry protocol infers from a permission error and the
\* argument vector of the call
InferredDomain(m, a) ==
    LET lower == toLowerCase(m)
        action == actionValue(a)
    IN IF Contains(lower, "calendar") THEN "calendars"
       ELSE IF Contains(lower, "reminder") THEN "reminders"
       ELSE IF action.t = "string"
               /\ (Contains(action.v, "event") \/ Contains(action.v, "calendar"))
            THEN "calendars"
       ELSE "reminders"

\* C21: a call whose first attempt failed with a permission-denied message has
\* triggered the prompt of the inferred domain: calendars when the message
\* mentions calendar, else reminders when it mentions reminder, else calendars
\* when the value after --action contains event or calendar, else reminders
C21_InferredDomainPrompted ==
    (pc = "done" /\ Spawned /\ FirstAttemptDenied)
        => \E i \in 1..Len(events) :
              events[i] = PromptEvent(InferredDomain(FirstAttempt.message, args))

\* the first attempt of the call failed with an error the heuristic does not match
FirstAttemptFailedOtherwise ==
    FirstAttempt.kind = "throw" /\ ~PermissionDenied(FirstAttempt.message)

\* C25: a call whose first attempt failed with an error that does not match the
\* permission-denied heuristic has started one child, has triggered no prompt
\* and raises the error of that first attempt
C25_NoRetryOnOtherErrors ==
    (pc = "done" /\ Spawned /\ FirstAttemptFailedOtherwise) =>
        /\ CountEv(events, "spawn") = 1
        /\ CountEv(events, "prompt") = 0
        /\ outcome = Raised(FirstAttempt.message)

\* the only child printed the error envelope of a failed read and the call
\* raised its message
C25_Witness ==
    /\ pc = "done"
    /\ CountEv(events, "spawn") = 1
    /\ script.first.stdout = JsStr(ReadErrorText)
    /\ outcome = Raised("Failed to read reminder")

\* C30: every executeCli call ends, with a value returned or an error raised,
\* given that each child it starts exits: it neither retries without bound nor
\* stays suspended once its child has exited
C30_Terminates ==
    (pc = "idle") ~> (pc = "done" /\ outcome.kind \in {"returned", "raised"})

\* a call has returned the result its only child printed
C30_Witness ==
    /\ pc = "done"
    /\ CountEv(events, "exit") = 1
    /\ outcome.kind = "returned"
    /\ child = NoChild

\* C22: every spawn of the call runs the selected binary path with exactly the
\* argument vector the caller passed, element for element and in order, as an
\* array: nothing added, dropped, rewritten or joined into a command line
C22_SpawnPassesArgs ==
    /\ \A i \in SpawnIndexes :
          /\ events[i].args = args
          /\ JsStr(events[i].path) =
                selectCliPath(possiblePaths(projectRoot), executeCliConfig, fs)
    /\ pc = "running" => child.args = args /\ child.path = possiblePaths(projectRoot)[1]

\* a child runs with the four arguments of the caller
C22_Witness ==
    /\ pc = "running"
    /\ child.args = <<"--title", "Test", "--action", "update-event">>
    /\ CountEv(events, "spawn") = 1

(***************************************************************************)
(* Properties of the argument vectors the repository builds                *)
(***************************************************************************)
\* the optional flags of a repository method with the data field each one
\* carries: those of one value, and those of a list of values
ScalarFlags(op) ==
    IF op = "createReminderList" THEN {<<"--color", "color">>}
    ELSE {<<"--targetList", "list">>, <<"--note", "notes">>, <<"--url", "url">>,
          <<"--dueDate", "dueDate">>, <<"--priority", "priority">>,
          <<"--isCompleted", "isCompleted">>, <<"--geofenceTitle", "geofenceTitle">>,
          <<"--geofenceLatitude", "geofenceLatitude">>,
          <<"--geofenceLongitude", "geofenceLongitude">>,
          <<"--geofenceRadius", "geofenceRadius">>,
          <<"--geofenceProximity", "geofenceProximity">>,
          <<"--recurrenceFrequency", "recurrenceFrequency">>,
          <<"--recurrenceInterval", "recurrenceInterval">>,
          <<"--recurrenceEndDate", "recurrenceEndDate">>,
          <<"--recurrenceOccurrenceCount", "recurrenceOccurrenceCount">>}
         \cup (IF op = "updateReminder"
               THEN {<<"--title", "newTitle">>, <<"--clearRecurrence", "clearRecurrence">>}
               ELSE {})
ListFlags(op) ==
    IF op = "createReminderList" THEN {}
    ELSE {<<"--recurrenceDaysOfWeek", "recurrenceDaysOfWeek">>,
          <<"--recurrenceDaysOfMonth", "recurrenceDaysOfMonth">>,
          <<"--recurrenceMonthsOfYear", "recurrenceMonthsOfYear">>,
          <<"--recurrenceWeeksOfYear", "recurrenceWeeksOfYear">>,
          <<"--recurrenceDaysOfYear", "recurrenceDaysOfYear">>,
          <<"--recurrenceSetPositions", "recurrenceSetPositions">>}
RequiredFlags == {"--action", "--title", "--id", "--name"}

\* the repository method of this run has built its argument vector
ArgvBuilt == request.op # "none" /\ pc # "caller"

FlagPositions == {i \in 1..Len(args) : i % 2 = 1}
ValuePositions == {i \in 1..Len(args) : i % 2 = 0}
PositionsOf(flag) == {i \in FlagPositions : args[i] = flag}

\* the vector is a flat list of flag/value pairs
FlatPairs ==
    /\ Len(args) % 2 = 0
    /\ \A i \in FlagPositions :
          args[i] \in RequiredFlags
                      \cup {f[1] : f \in ScalarFlags(request.op) \cup ListFlags(request.op)}

\* the flag is in the vector exactly when present holds, and then once, followed
\* by the value text
FlagIff(flag, present, text) ==
    IF present
    THEN \E i \in FlagPositions : PositionsOf(flag) = {i} /\ args[i + 1] = text
    ELSE PositionsOf(flag) = {}

Made == {c \in CallIds : calls[c].state # "free"}
ProbeFailed(c) == calls[c].state = "settled" /\ calls[c].probe.kind \in {"Error", "string"}

\* C2: of the non-forced calls for one domain started while an earlier one is still
\* suspended on its probe, none invokes the probe again
C2_ConcurrentCallsProbeOnce ==
    \A c \in Made :
        (~calls[c].force /\ \E b \in calls[c].overlap : ~calls[b].force)
            => ~calls[c].ranProbe

C9_ProbeFailureRejects ==
    \A c \in Made :
        (ProbeFailed(c) /\ calls[c].domain = "reminders") =>
            /\ calls[c].result = "rejected"
            /\ Contains(calls[c].message, "Failed to trigger reminders permission prompt")
            /\ calls[c].probe.kind = "string" =>
                  calls[c].message = "Failed to trigger reminders permission prompt: "
                                        \o calls[c].probe.message

C26_ForcedAlwaysProbes ==
    \A c \in Made :
        /\ calls[c].force => calls[c].ranProbe
        /\ (calls[c].force /\ calls[c].state = "settled" /\ ~calls[c].stale)
              => hasBeenPrompted(calls[c].domain)
        /\ ~calls[c].ranProbe => ~calls[c].force

\* a forced call made after a probe of its domain had completed ran the probe
\* again, the probe failed, and the domain is in the set
C26_Witness ==
    \E c \in Made :
        /\ calls[c].force /\ calls[c].after /\ ~calls[c].stale
        /\ calls[c].ranProbe
        /\ ProbeFailed(c)
        /\ hasBeenPrompted(calls[c].domain)

\* the call is the first one made for its domain since the set was last reset
FirstFor(c) ==
    /\ ~calls[c].stale
    /\ \A b \in 1..(c - 1) : calls[b].domain # calls[c].domain /\ ~calls[b].stale

\* a step marks a domain only through a call for that domain, and a call returns
\* without a probe only when its own domain is in the set
OwnDomainOnly ==
    /\ \A d \in promptedDomains' \ promptedDomains :
          \E c \in CallIds : calls'[c] # calls[c] /\ calls'[c].domain = d
    /\ \A c \in CallIds :
          (calls[c].state = "free" /\ calls'[c].state = "settled")
              => calls[c]'.domain \in promptedDomains

\* C27: a call reads and marks only its own domain: the first call for a domain
\* invokes the probe whatever was done for the other domain, every probe runs
\* the script of the call's own domain, and no step marks another domain
C27_DomainsIndependent ==
    /\ [](\A c \in Made :
            /\ FirstFor(c) => calls[c].ranProbe
            /\ calls[c].ranProbe => calls[c].command = APPLESCRIPT_SNIPPETS[calls[c].domain])
    /\ [][OwnDomainOnly]_vars

\* the first calls for the two domains are suspended on their probes at the same
\* time, each with its own script
C27_Witness ==
    \E b, c \in Made :
        /\ calls[b].domain = "reminders" /\ calls[c].domain = "calendars"
        /\ FirstFor(b) /\ FirstFor(c)
        /\ calls[b].state = "awaiting" /\ calls[c].state = "awaiting"
        /\ calls[b].command # calls[c].command

\* C28: when a non-forced call has returned to its caller, a probe for its domain
\* has run to completion: its own, or the probe of another call that has settled
C28_ReleasedAfterProbe ==
    \A c \in Made :
        (calls[c].state = "settled" /\ ~calls[c].force /\ ~calls[c].stale
            /\ ~calls[c].ranProbe)
            => \E b \in CallIds \ {c} :
                  /\ calls[b].state = "settled"
                  /\ calls[b].ranProbe
                  /\ calls[b].domain = calls[c].domain

\* C29: a call started while another call for its domain was suspended on its
\* probe invokes the probe only when both calls are forced
C29_OneProbeInFlight ==
    \A c \in Made :
        \A b \in calls[c].overlap :
            (calls[c].ranProbe /\ ~calls[c].stale)
                => (calls[c].force /\ calls[b].force)

(***************************************************************************)
(* Properties of the validator                                             *)
(***************************************************************************)
\* the positions of the candidates that validateBinarySecurity accepts
ValidCandidates ==
    {i \in 1..Len(vpaths) : validateBinarySecurity(vpaths[i], vconfig, vfiles).isValid}
FirstValid == CHOOSE i \in ValidCandidates : \A j \in ValidCandidates : i <= j

\* C11: findSecureBinaryPath returns the first candidate, in list order, that
\* validateBinarySecurity accepts, with the result of that validation, and
\* validates no candidate after it; for an empty list or a list without a valid
\* candidate it returns path null and no validation result
C11_FirstValidCandidate ==
    vop = "findSecureBinaryPath" =>
        IF ValidCandidates = {}
        THEN /\ vout.path = JsNull
             /\ ~vout.hasResult
        ELSE /\ vout.path = JsStr(vpaths[FirstValid])
             /\ vout.hasResult
             /\ vout.validationResult =
                    validateBinarySecurity(vpaths[FirstValid], vconfig, vfiles)
             /\ vout.validationResult.isValid
             /\ Len(vout.validated) = FirstValid
             /\ \A i \in 1..FirstValid : vout.validated[i].path = vpaths[i]

\* the second of three candidates was selected and the third, valid as well, was
\* never validated
C11_Witness ==
    /\ vop = "findSecureBinaryPath"
    /\ Len(vpaths) = 3
    /\ ValidCandidates = {2, 3}
    /\ vout.path = JsStr(vpaths[2])
    /\ Len(vout.validated) = 2

\* the path a single-path function was called with, and the file it leads to
Subject == vpaths[1]
SubjectFile == fileAt(vfiles, Subject)

\* the six checks of validateBinaryPath, each on its own
FailsAbsolute == vconfig.requireAbsolutePath /\ ~isAbsolute(Subject)
FailsContainment == ~pathAllowed(normalize(Subject), vconfig.allowedPaths)
FailsExistence == SubjectFile.exists = "no"
FailsRegular == ~SubjectFile.isFile
FailsSize == SubjectFile.size > vconfig.maxFileSize
FailsExecutable == ~SubjectFile.executable

ChecksFailed ==
    <<FailsAbsolute, FailsContainment, FailsExistence, FailsRegular, FailsSize,
      FailsExecutable>>
CheckCodes ==
    <<"INVALID_PATH", "PATH_NOT_ALLOWED", "FILE_NOT_FOUND", "NOT_A_FILE",
      "FILE_TOO_LARGE", "NOT_EXECUTABLE">>

\* the filesystem answers the questions asked about the subject (existsSync does
\* not itself throw), or the path is rejected before the filesystem is asked
FilesystemAnswers == SubjectFile.exists # "throws" \/ FailsAbsolute \/ FailsContainment

\* C12: validateBinaryPath raises the code of the earliest check that fails, in the
\* order absoluteness, containment, existence, regular file, size, executability,
\* and returns without raising only when every check passes
C12_FirstFailingCheck ==
    vop = "validateBinaryPath" =>
        \A failed \in {ChecksFailed}, answers \in {FilesystemAnswers} :
            /\ vout.ok => /\ \A k \in 1..6 : ~failed[k]
                          /\ answers
            /\ answers =>
                  /\ vout.ok <=> \A k \in 1..6 : ~failed[k]
                  /\ \A k \in 1..6 :
                        vout.code = CheckCodes[k]
                            <=> (failed[k] /\ \A j \in 1..(k - 1) : ~failed[j])

\* a relative path outside the allowed directories that leads to no file was
\* rejected as INVALID_PATH
C12_Witness ==
    /\ vop = "validateBinaryPath"
    /\ FailsAbsolute /\ FailsContainment /\ FailsExistence
    /\ vout.code = "INVALID_PATH"

\* C13 as stated: every path whose normalized form contains no allowed fragment
\* fails with PATH_NOT_ALLOWED, and a path whose normalized form contains one is
\* not rejected for its directory
C13_NotAllowedWhenOutside ==
    vop = "validateBinaryPath" =>
        (FailsContainment <=> vout.code = "PATH_NOT_ALLOWED")

\* C13, amended: every path that passes the absoluteness check and whose normalized
\* form contains no allowed fragment fails with PATH_NOT_ALLOWED, whatever the raw
\* string contains; a path whose normalized form contains an allowed fragment is
\* never rejected with PATH_NOT_ALLOWED
C13_NormalizedContainment ==
    vop = "validateBinaryPath" =>
        /\ ~FailsAbsolute => (FailsContainment <=> vout.code = "PATH_NOT_ALLOWED")
        /\ ~FailsContainment => vout.code # "PATH_NOT_ALLOWED"
        /\ FailsContainment => ~vout.ok

\* a path whose raw string contains an allowed fragment and whose normalized form
\* does not was rejected with PATH_NOT_ALLOWED
C13_Witness ==
    /\ vop = "validateBinaryPath"
    /\ pathAllowed(Subject, vconfig.allowedPaths)
    /\ FailsContainment
    /\ vout.code = "PATH_NOT_ALLOWED"

\* an error is raised inside validateBinarySecurity
RaisedInside ==
    \/ ~validateBinaryPath(Subject, vconfig, vfiles).ok
    \/ ~calculateBinaryHash(Subject, vfiles).ok

\* C14: validateBinarySecurity never raises, whatever the path, the configuration
\* and the filesystem; when an error was raised inside it the result has
\* isValid = FALSE and at least one entry in errors
C14_SecurityIsTotal ==
    vop = "validateBinarySecurity" =>
        /\ ~vout.raised
        /\ RaisedInside => (~vout.isValid /\ Len(vout.errors) > 0)

\* existsSync itself threw on a path that passed the path checks, and the result
\* reports it
C14_Witness ==
    /\ vop = "validateBinarySecurity"
    /\ ~FailsAbsolute /\ ~FailsContainment
    /\ SubjectFile.exists = "throws"
    /\ ~vout.raised /\ ~vout.isValid /\ Len(vout.errors) = 1

\* the expected hash is set and differs from what calculateBinaryHash computed
ExpectedHashDiffers ==
    /\ vconfig.expectedHash.t = "string"
    /\ vconfig.expectedHash.v # calculateBinaryHash(Subject, vfiles).hash

\* C15 as stated: for a path that passes every validateBinaryPath check the result
\* is invalid exactly when the expected hash is set and differs from the digest;
\* otherwise it is valid with no errors and a non-empty hash
C15_InvalidOnlyOnMismatch ==
    (vop = "validateBinarySecurity" /\ validateBinaryPath(Subject, vconfig, vfiles).ok) =>
        /\ ~vout.isValid <=> ExpectedHashDiffers
        /\ vout.isValid => (vout.errors = <<>> /\ Truthy(vout.hash))

\* C15, amended: the same, for a path that passes every validateBinaryPath check
\* and whose file can be read
C15_ReadableInvalidOnlyOnMismatch ==
    (/\ vop = "validateBinarySecurity"
     /\ validateBinaryPath(Subject, vconfig, vfiles).ok
     /\ SubjectFile.content # Unreadable) =>
        /\ ~vout.isValid <=> ExpectedHashDiffers
        /\ vout.isValid => (vout.errors = <<>> /\ Truthy(vout.hash))

\* a file that passes every path check was reported invalid for its hash alone
C15_Witness ==
    /\ vop = "validateBinarySecurity"
    /\ validateBinaryPath(Subject, vconfig, vfiles).ok
    /\ SubjectFile.content # Unreadable
    /\ ExpectedHashDiffers
    /\ ~vout.isValid
    /\ vout.errors = <<HashMismatchEntry>>

\* C16: validateBinaryIntegrity never raises, and returns TRUE exactly when the
\* file can be read and the digest of its bytes equals expectedHash - whatever
\* else is true of the path and of the file
C16_IntegrityIsTotal ==
    vop = "validateBinaryIntegrity" =>
        /\ ~vout.raised
        /\ vout.value <=> /\ SubjectFile.content \in Contents
                          /\ sha256(SubjectFile.content) = vconfig.expectedHash.v

\* the check of a file that cannot be read returned FALSE
C16_Witness ==
    /\ vop = "validateBinaryIntegrity"
    /\ SubjectFile.exists = "yes"
    /\ SubjectFile.content = Unreadable
    /\ ~vout.raised /\ ~vout.value

\* the machine codes of the validation taxonomy
TaxonomyCodes ==
    {"INVALID_PATH", "PATH_NOT_ALLOWED", "FILE_NOT_FOUND", "NOT_A_FILE", "FILE_TOO_LARGE",
     "NOT_EXECUTABLE", "HASH_COMPUTE_FAILED", "HASH_MISMATCH"}
BeginsWith(s, prefix) == Len(s) >= Len(prefix) /\ SubSeq(s, 1, Len(prefix)) = prefix

\* C24: every entry of the errors list validateBinarySecurity returns begins with
\* a machine code of the validation taxonomy, the entry for a hash mismatch and
\* the entry for an unexpected internal error included
C24_EntriesBeginWithCode ==
    vop = "validateBinarySecurity" =>
        \A i \in 1..Len(vout.errors) :
            \E code \in TaxonomyCodes : BeginsWith(vout.errors[i], code)
====
